---- MODULE Spec2Model ----
(***************************************************************************)
(* The mouse-trap dashboard: the client page (src/app/page.tsx, and the    *)
(* earlier four-colour page kept in src/unnamed/part_002) and the relay    *)
(* route POST /api/detect (src/app/api/detect/route.ts), with the two      *)
(* other routes of the server: GET /api/health and GET, POST               *)
(* /api/detection.                                                         *)
(*                                                                         *)
(* React state is modelled by its value after the update.  The keydown     *)
(* listener is the closure the effect registered last, so it tests the     *)
(* isDetecting of the render it was created in: listenerIsDetecting.       *)
(* triggerDetection runs inside the keydown event; React 18 (which the app *)
(* router of src/app/api needs) renders an update made during a discrete   *)
(* input event and runs its effects before the next event is dispatched,   *)
(* so the listener is replaced within the step that sets the flag.  The    *)
(* update made after the await is rendered later and its effect runs later *)
(* still: runKeydownEffect is that step.                                   *)
(***************************************************************************)
EXTENDS Integers, Sequences, FiniteSets, TLC

VARIABLES
    scheme,               \* which Home component is mounted: page.tsx or part_002
    trapStates,           \* useState: trap id -> status
    selectedTrap,         \* useState<string | null>
    enlargedTrap,         \* useState<string | null>
    detectionResult,      \* useState<string | null>
    isDetecting,          \* useState(false)
    listenerIsDetecting,  \* the isDetecting captured by the registered handleKeyPress
    requests,             \* the invocations of triggerDetection and their relay runs
    clickRun,             \* history: the latest run of clicks on one trap
    resolutions,          \* history: the responses in the order they resolved
    health,               \* the latest GET /api/health: what port 5000 did, and the outcome
    detectionState,       \* let detectionState of api/detection/route.ts
    statusReply,          \* the latest reply of /api/detection
    lastPosted,           \* history: the body of the latest POST that succeeded
    clock,                \* Date.now()
    detector              \* the external detector service: port -> down or up

serverVars == <<health, detectionState, statusReply, lastPosted, clock, detector>>

vars == <<scheme, trapStates, selectedTrap, enlargedTrap, detectionResult,
          isDetecting, listenerIsDetecting, requests, clickRun, resolutions,
          serverVars>>

\* What the page's own steps leave alone.
outsideVars == <<clickRun, resolutions, serverVars>>

uiVars == <<trapStates, selectedTrap, enlargedTrap>>
detectVars == <<detectionResult, isDetecting, listenerIsDetecting, requests>>
pageVars == <<scheme, uiVars, detectVars>>

----------------------------------------------------------------------------
(* Bounds *)

\* Invocations of triggerDetection in one behaviour.
MaxTriggers == 2

\* Clicks counted in one run of clicks on the same trap.
MaxRun == 4

\* The latest reading of Date.now(), counted from the load of the module.
MaxClock == 2

----------------------------------------------------------------------------
(* JavaScript values *)

NullValue == "<null>"
Undefined == "<undefined>"

\* v || d on strings and undefined
OrElse(v, d) == IF v = Undefined \/ v = "" THEN d ELSE v

\* JSON values are records tagged by json; an object carries its own fields.
JNull == [json |-> "null"]
NotJson == [json |-> "invalid"]
NoBody == [json |-> "none"]

\* data.f on an object
Prop(data, f) == IF f \in DOMAIN data THEN data[f] ELSE Undefined

----------------------------------------------------------------------------
(* The external detector: what one port answers to POST /detect *)

TextEmpty == ""
TextBlank == "  "
TextHtml == "<html>Bad Gateway</html>"
TextNull == "null"
TextEmptyObject == "{}"
TextSuccess == "{\"status\":\"success\",\"result\":\"MOUSE DETECTED\",\"detected\":true}"
TextSuccessNoResult == "{\"status\":\"success\"}"
TextError == "{\"status\":\"error\",\"error\":\"Camera not available\"}"

Texts == {TextEmpty, TextBlank, TextHtml, TextNull, TextEmptyObject,
          TextSuccess, TextSuccessNoResult, TextError}

\* text.trim()
trim(text) == IF text = TextBlank THEN "" ELSE text

\* JSON.parse(text): the value, or a SyntaxError
JSONparse(text) ==
    CASE text = TextNull -> [ok |-> TRUE, value |-> JNull]
      [] text = TextEmptyObject -> [ok |-> TRUE, value |-> [json |-> "object"]]
      [] text = TextSuccess ->
            [ok |-> TRUE, value |-> [json |-> "object", status |-> "success",
                                     result |-> "MOUSE DETECTED", detected |-> TRUE]]
      [] text = TextSuccessNoResult ->
            [ok |-> TRUE, value |-> [json |-> "object", status |-> "success"]]
      [] text = TextError ->
            [ok |-> TRUE, value |-> [json |-> "object", status |-> "error",
                                     error |-> "Camera not available"]]
      [] OTHER -> [ok |-> FALSE, value |-> NotJson]

\* Errors a fetch can reject with.
ErrRefused == [code |-> "ECONNREFUSED", message |-> "connect ECONNREFUSED 127.0.0.1"]
ErrFetchFailed == [code |-> Undefined, message |-> "fetch failed"]
ErrAborted == [code |-> "ABORT_ERR", message |-> "This operation was aborted"]
ErrBodyRead == [code |-> Undefined, message |-> "terminated"]

FetchErrors == {ErrRefused, ErrFetchFailed, ErrAborted}

\* error.message?.includes('fetch failed')
includesFetchFailed(message) == message = "fetch failed"

UpstreamStatuses == {200, 500}

\* response.ok
ResponseOk(status) == status >= 200 /\ status <= 299

\* What a port does with one request: the fetch rejects, the body cannot be
\* read, or a response with a status and a body text arrives.
PortBehaviours ==
    [kind : {"rejects"}, error : FetchErrors]
    \cup [kind : {"bodyFails"}, status : UpstreamStatuses, error : {ErrBodyRead}]
    \cup [kind : {"responds"}, status : UpstreamStatuses, text : Texts]

----------------------------------------------------------------------------
(* The relay: POST /api/detect *)

\* const ports = [5001, 5000, 5002, 8000]
ports == <<5001, 5000, 5002, 8000>>

ServiceUnavailable == 503

AllPortsFailedMessage ==
    "Detector service is not running on any port (5001, 5000, 5002, 8000). Make sure mouse_detector.py is running."

\* The reply after the loop: all ports failed.
AllPortsFailedReply ==
    [status |-> ServiceUnavailable,
     body |-> [json |-> "object", error |-> AllPortsFailedMessage, status |-> "error"]]

NoReply == [status |-> 0, body |-> NoBody]

\* The two ways one loop iteration ends.
Continue == [continue |-> TRUE, reply |-> NoReply]
Return(reply) == [continue |-> FALSE, reply |-> reply]

\* data.error on null
ErrNullProperty ==
    [code |-> Undefined, message |-> "Cannot read properties of null (reading 'error')"]

\* A variant that replies when the error is not a connection error.
catchBlock_repliesOnOther(error) ==
    IF error.code = "ECONNREFUSED" \/ includesFetchFailed(error.message)
    THEN Continue
    ELSE Return([status |-> 500,
                 body |-> [json |-> "object", error |-> error.message, status |-> "error"]])

\* catch (error: any) { ... }: a connection error and any other error both
\* go on to the next port; the other error is logged first.
catchBlock(error) ==
    IF error.code = "ECONNREFUSED" \/ includesFetchFailed(error.message)
    THEN Continue
    ELSE Continue

\* The reply to an upstream answer whose status is not OK: { error, status }
\* with the upstream status.  On null, data.error throws inside the try.
errorReply(status, data) ==
    IF data = JNull
    THEN catchBlock(ErrNullProperty)
    ELSE Return([status |-> status,
                 body |-> [json |-> "object",
                           error |-> OrElse(Prop(data, "error"), "Detection failed"),
                           status |-> OrElse(Prop(data, "status"), "error")]])

\* The body of the for loop for one port whose behaviour is b.
tryPort(b) ==
    IF b.kind = "rejects" \/ b.kind = "bodyFails"
    THEN catchBlock(b.error)
    ELSE IF b.text = "" \/ Len(trim(b.text)) = 0
    THEN Continue
    ELSE LET parsed == JSONparse(b.text) IN
         IF ~parsed.ok
         THEN Continue
         ELSE IF ~ResponseOk(b.status)
         THEN errorReply(b.status, parsed.value)
         ELSE Return([status |-> 200, body |-> parsed.value])

----------------------------------------------------------------------------
(* The invocations of triggerDetection *)

ReqIds == 1..MaxTriggers

\* pc: idle (not started), relay (the relay's loop is running), replied (the
\* relay has returned, the response is on its way), rejected (the client's
\* fetch rejected), done (the invocation has finished).
\* attempted: the ports the relay has tried; answer: response.status and data
\* of the last port tried, when its body parsed; reply: what the relay
\* returned; sent: the requests this invocation has issued; applied: the
\* results it has stored.
IdleRequest ==
    [pc |-> "idle", attempted |-> <<>>, answer |-> NoReply, reply |-> NoReply,
     sent |-> 0, applied |-> 0]

Outstanding == {r \in ReqIds : requests[r].pc \in {"relay", "replied", "rejected"}}

\* A variant of the port order with the default Flask port first.
nextPort_numeric(attempted) == <<5000, 5001, 5002, 8000>>[Len(attempted) + 1]

\* for (const port of ports)
nextPort(attempted) == ports[Len(attempted) + 1]

\* A variant whose loop ends one port early.
portsExhausted_early(attempted) == Len(attempted) >= Len(ports) - 1

\* The loop is over.
portsExhausted(attempted) == Len(attempted) = Len(ports)

\* response.status and data once JSON.parse(text) has returned.
parsedAnswer(b) ==
    IF b.kind = "responds" /\ b.text # "" /\ Len(trim(b.text)) # 0 /\ JSONparse(b.text).ok
    THEN [status |-> b.status, body |-> JSONparse(b.text).value]
    ELSE NoReply

\* One iteration of the relay's loop for request r, the port doing b.
RelayAttempt(r, b) ==
    /\ requests[r].pc = "relay"
    /\ LET tried == Append(requests[r].attempted, nextPort(requests[r].attempted))
           out == tryPort(b)
           data == parsedAnswer(b)
       IN requests' = [requests EXCEPT ![r] =
              IF ~out.continue
              THEN [@ EXCEPT !.pc = "replied", !.attempted = tried, !.answer = data,
                             !.reply = out.reply]
              ELSE IF portsExhausted(tried)
              THEN [@ EXCEPT !.pc = "replied", !.attempted = tried, !.answer = data,
                             !.reply = AllPortsFailedReply]
              ELSE [@ EXCEPT !.attempted = tried, !.answer = data]]
    /\ UNCHANGED <<scheme, uiVars, detectionResult, isDetecting, listenerIsDetecting>>

----------------------------------------------------------------------------
(* The page: trap registry and trap state store *)

\* const traps = [...]
traps ==
    <<[id |-> "kitchen", name |-> "Kitchen"],
      [id |-> "livingRoom", name |-> "Living Room"],
      [id |-> "bedroom", name |-> "Bedroom"]>>

TrapIds == {traps[i].id : i \in DOMAIN traps}

\* Room arguments outside the registry.
UnknownRooms == {"garage"}

RoomArguments == TrapIds \cup UnknownRooms

\* useState({ kitchen: 'inactive', livingRoom: 'inactive', bedroom: 'inactive' })
InitialTrapStates ==
    [room \in {"kitchen", "livingRoom", "bedroom"} |-> "inactive"]

\* useState({ kitchen: 'default', livingRoom: 'default', bedroom: 'default' })
InitialTrapColors ==
    [room \in {"kitchen", "livingRoom", "bedroom"} |-> "default"]

\* trapStates[room]
lookup(states, room) == IF room \in DOMAIN states THEN states[room] ELSE Undefined

\* { ...trapStates, [room]: value }
spread(states, room, value) ==
    [k \in DOMAIN states \cup {room} |-> IF k = room THEN value ELSE states[k]]

\* A variant that only ever arms a trap.
handleTrapClick_activates(room) ==
    /\ scheme = "binary"
    /\ trapStates' = spread(trapStates, room, "active")
    /\ selectedTrap' = room
    /\ enlargedTrap' = room
    /\ UNCHANGED <<scheme, detectVars>>

\* A variant that toggles the trap without selecting or enlarging it.
handleTrapClick_noSelect(room) ==
    /\ scheme = "binary"
    /\ LET newState == IF lookup(trapStates, room) = "inactive" THEN "active" ELSE "inactive"
       IN trapStates' = spread(trapStates, room, newState)
    /\ UNCHANGED <<scheme, selectedTrap, enlargedTrap, detectVars>>

\* handleTrapClick of page.tsx
handleTrapClick(room) ==
    /\ scheme = "binary"
    /\ LET newState == IF lookup(trapStates, room) = "inactive" THEN "active" ELSE "inactive"
       IN trapStates' = spread(trapStates, room, newState)
    /\ selectedTrap' = room
    /\ enlargedTrap' = room
    /\ UNCHANGED <<scheme, detectVars>>

\* A variant that tallies the active traps only.
getStatusCounts_activeOnly(states) ==
    [inactive |-> 0,
     active |-> Cardinality({k \in DOMAIN states : states[k] = "active"})]

\* getStatusCounts: the tally of the values 'inactive' and 'active'
getStatusCounts(states) ==
    [inactive |-> Cardinality({k \in DOMAIN states : states[k] = "inactive"}),
     active |-> Cardinality({k \in DOMAIN states : states[k] = "active"})]

colors == <<"default", "green", "yellow", "red">>

\* colors.indexOf(value), from 0, -1 when absent
indexOf(seq, value) ==
    IF \E i \in DOMAIN seq : seq[i] = value
    THEN (CHOOSE i \in DOMAIN seq : seq[i] = value /\ \A j \in 1..(i - 1) : seq[j] # value) - 1
    ELSE -1

\* A variant that stops at the last colour instead of wrapping.
handleTrapClickColors_noWrap(room) ==
    /\ scheme = "cyclic4"
    /\ LET currentIndex == indexOf(colors, lookup(trapStates, room))
           nextIndex == IF currentIndex + 1 < Len(colors) THEN currentIndex + 1 ELSE currentIndex
       IN trapStates' = spread(trapStates, room, colors[nextIndex + 1])
    /\ UNCHANGED <<scheme, selectedTrap, enlargedTrap, detectVars>>

\* A variant that steps to the colour before, not the colour after.
handleTrapClickColors_backwards(room) ==
    /\ scheme = "cyclic4"
    /\ LET currentIndex == indexOf(colors, lookup(trapStates, room))
           nextIndex == (currentIndex + Len(colors) - 1) % Len(colors)
       IN trapStates' = spread(trapStates, room, colors[nextIndex + 1])
    /\ UNCHANGED <<scheme, selectedTrap, enlargedTrap, detectVars>>

\* handleTrapClick of part_002
handleTrapClickColors(room) ==
    /\ scheme = "cyclic4"
    /\ LET currentIndex == indexOf(colors, lookup(trapStates, room))
           nextIndex == (currentIndex + 1) % Len(colors)
       IN trapStates' = spread(trapStates, room, colors[nextIndex + 1])
    /\ UNCHANGED <<scheme, selectedTrap, enlargedTrap, detectVars>>

\* A variant of the overlay binding that passes the display name.
TrapClick_byName(i) ==
    \/ handleTrapClick(traps[i].name)
    \/ handleTrapClickColors(traps[i].name)

\* onClick={() => handleTrapClick(trap.id)} of the i-th trap of the overlay
TrapClick(i) ==
    \/ handleTrapClick(traps[i].id)
    \/ handleTrapClickColors(traps[i].id)

\* CameraFeed onClick={() => setSelectedTrap(trap.id)}
CameraFeedClick(i) ==
    /\ scheme = "binary"
    /\ selectedTrap' = traps[i].id
    /\ UNCHANGED <<scheme, trapStates, enlargedTrap, detectVars>>

\* onClick={() => setEnlargedTrap(null)} of the modal, shown while enlargedTrap is set
CloseModal ==
    /\ scheme = "binary"
    /\ enlargedTrap # NullValue
    /\ enlargedTrap' = NullValue
    /\ UNCHANGED <<scheme, trapStates, selectedTrap, detectVars>>

\* room: the trap of the latest clicks; from: its status before the first of
\* them; count: how many clicks on it followed one another.
NoRun == [room |-> NullValue, from |-> NullValue, count |-> 0]

\* A click on the i-th trap of the overlay, recorded in clickRun: it extends
\* the run of its trap, or starts a new run.
ClickInRun(i) ==
    /\ TrapClick(i)
    /\ clickRun' =
           IF clickRun.room = traps[i].id /\ clickRun.count < MaxRun
           THEN [clickRun EXCEPT !.count = @ + 1]
           ELSE [room |-> traps[i].id, from |-> trapStates[traps[i].id], count |-> 1]
    /\ UNCHANGED <<resolutions, serverVars>>

----------------------------------------------------------------------------
(* The page: the detection trigger *)

Keys == {"Enter", "Escape"}

ConnectFailedMessage == "Error: Failed to connect to detector service"

\* A variant that leaves the previous result on display while in flight.
triggerDetection_keepsResult(r) ==
    /\ isDetecting' = TRUE
    /\ UNCHANGED detectionResult
    /\ requests' = [requests EXCEPT ![r] =
           [pc |-> "relay", attempted |-> <<>>, answer |-> NoReply,
            reply |-> NoReply, sent |-> @.sent + 1, applied |-> 0]]
    /\ listenerIsDetecting' = TRUE
    /\ UNCHANGED <<scheme, uiVars>>

\* triggerDetection up to its first await: the flag, the cleared result and
\* the one fetch of /api/detect.  Called from the keydown handler, so the
\* render and the re-registration of the handler follow before the next event.
triggerDetection(r) ==
    /\ isDetecting' = TRUE
    /\ detectionResult' = NullValue
    /\ requests' = [requests EXCEPT ![r] =
           [pc |-> "relay", attempted |-> <<>>, answer |-> NoReply,
            reply |-> NoReply, sent |-> @.sent + 1, applied |-> 0]]
    /\ listenerIsDetecting' = TRUE
    /\ UNCHANGED <<scheme, uiVars>>

FreeRequests == {r \in ReqIds : requests[r].pc = "idle"}

NextRequest == CHOOSE r \in FreeRequests : \A q \in FreeRequests : r <= q

\* A variant of the keydown handler without the in-flight gate.
handleKeyPress_noGate(key) ==
    /\ scheme = "binary"
    /\ IF key = "Enter"
       THEN FreeRequests # {} /\ triggerDetection(NextRequest)
       ELSE UNCHANGED vars

\* handleKeyPress as registered by the last run of the effect
handleKeyPress(key) ==
    /\ scheme = "binary"
    /\ IF key = "Enter" /\ ~listenerIsDetecting
       THEN FreeRequests # {} /\ triggerDetection(NextRequest)
       ELSE UNCHANGED vars

\* The client's fetch of /api/detect rejects.
FetchRejects(r) ==
    /\ requests[r].pc = "relay"
    /\ requests' = [requests EXCEPT ![r] = [@ EXCEPT !.pc = "rejected"]]
    /\ UNCHANGED <<scheme, uiVars, detectionResult, isDetecting, listenerIsDetecting>>

\* The response that arrives is not the relay's: a body that is not JSON.
ResponseNotJson(r) ==
    /\ requests[r].pc = "relay"
    /\ requests' = [requests EXCEPT ![r] =
           [@ EXCEPT !.pc = "replied", !.reply = [status |-> 500, body |-> NotJson]]]
    /\ UNCHANGED <<scheme, uiVars, detectionResult, isDetecting, listenerIsDetecting>>

\* A variant that reads the result from data.message.
storedResult_message(req) ==
    IF req.pc = "rejected"
    THEN ConnectFailedMessage
    ELSE LET data == req.reply.body IN
         IF data = NotJson \/ data = JNull
         THEN ConnectFailedMessage
         ELSE IF Prop(data, "status") = "success"
         THEN Prop(data, "message")
         ELSE "Error: " \o OrElse(Prop(data, "error"), "Unknown error")

\* A variant that shows one fixed message for every reply that is no success.
storedResult_dropsError(req) ==
    IF req.pc = "rejected"
    THEN ConnectFailedMessage
    ELSE LET data == req.reply.body IN
         IF data = NotJson \/ data = JNull
         THEN ConnectFailedMessage
         ELSE IF Prop(data, "status") = "success"
         THEN Prop(data, "result")
         ELSE "Error: Unknown error"

\* What triggerDetection stores once its awaits are over: try, else, catch.
storedResult(req) ==
    IF req.pc = "rejected"
    THEN ConnectFailedMessage
    ELSE LET data == req.reply.body IN
         IF data = NotJson \/ data = JNull
         THEN ConnectFailedMessage
         ELSE IF Prop(data, "status") = "success"
         THEN Prop(data, "result")
         ELSE "Error: " \o OrElse(Prop(data, "error"), "Unknown error")

\* Whether the invocation ended in its catch block.
caught(req) ==
    req.pc = "rejected" \/ req.reply.body = NotJson \/ req.reply.body = JNull

\* A variant that clears the flag at the end of the try block, not in finally.
resolveDetection_noFinally(r) ==
    /\ requests[r].pc \in {"replied", "rejected"}
    /\ detectionResult' = storedResult(requests[r])
    /\ isDetecting' = IF caught(requests[r]) THEN isDetecting ELSE FALSE
    /\ requests' = [requests EXCEPT ![r] =
           [pc |-> "done", attempted |-> <<>>, answer |-> NoReply,
            reply |-> NoReply, sent |-> @.sent, applied |-> @.applied + 1]]
    /\ UNCHANGED <<scheme, uiVars, listenerIsDetecting>>

\* A variant that fetches again when the result is a failure.
resolveDetection_retries(r) ==
    /\ requests[r].pc \in {"replied", "rejected"}
    /\ IF caught(requests[r])
       THEN /\ requests' = [requests EXCEPT ![r] =
                   [pc |-> "relay", attempted |-> <<>>, answer |-> NoReply,
                    reply |-> NoReply, sent |-> @.sent + 1, applied |-> @.applied]]
            /\ UNCHANGED <<detectionResult, isDetecting>>
       ELSE /\ detectionResult' = storedResult(requests[r])
            /\ isDetecting' = FALSE
            /\ requests' = [requests EXCEPT ![r] =
                   [pc |-> "done", attempted |-> <<>>, answer |-> NoReply,
                    reply |-> NoReply, sent |-> @.sent, applied |-> @.applied + 1]]
    /\ UNCHANGED <<scheme, uiVars, listenerIsDetecting>>

\* A variant that arms the selected trap when the reply reports a mouse.
resolveDetection_marksTrap(r) ==
    /\ requests[r].pc \in {"replied", "rejected"}
    /\ detectionResult' = storedResult(requests[r])
    /\ isDetecting' = FALSE
    /\ trapStates' =
           IF /\ ~caught(requests[r])
              /\ "detected" \in DOMAIN requests[r].reply.body
              /\ requests[r].reply.body.detected
              /\ selectedTrap # NullValue
           THEN spread(trapStates, selectedTrap, "active")
           ELSE trapStates
    /\ requests' = [requests EXCEPT ![r] =
           [pc |-> "done", attempted |-> <<>>, answer |-> NoReply,
            reply |-> NoReply, sent |-> @.sent, applied |-> @.applied + 1]]
    /\ UNCHANGED <<scheme, selectedTrap, enlargedTrap, listenerIsDetecting>>

\* A variant that drops the response of an invocation started before another.
resolveDetection_ignoresStale(r) ==
    /\ requests[r].pc \in {"replied", "rejected"}
    /\ detectionResult' =
           IF \E q \in ReqIds : q > r /\ requests[q].pc # "idle"
           THEN detectionResult
           ELSE storedResult(requests[r])
    /\ isDetecting' = FALSE
    /\ requests' = [requests EXCEPT ![r] =
           [pc |-> "done", attempted |-> <<>>, answer |-> NoReply,
            reply |-> NoReply, sent |-> @.sent, applied |-> @.applied + 1]]
    /\ UNCHANGED <<scheme, uiVars, listenerIsDetecting>>

\* triggerDetection after its awaits: the stored result, then finally.
resolveDetection(r) ==
    /\ requests[r].pc \in {"replied", "rejected"}
    /\ detectionResult' = storedResult(requests[r])
    /\ isDetecting' = FALSE
    /\ requests' = [requests EXCEPT ![r] =
           [pc |-> "done", attempted |-> <<>>, answer |-> NoReply,
            reply |-> NoReply, sent |-> @.sent, applied |-> @.applied + 1]]
    /\ UNCHANGED <<scheme, uiVars, listenerIsDetecting>>

\* useEffect(..., [isDetecting, triggerDetection]) after a render that no
\* input event caused: the handler is registered anew with the rendered flag.
runKeydownEffect ==
    /\ listenerIsDetecting # isDetecting
    /\ listenerIsDetecting' = isDetecting
    /\ UNCHANGED <<scheme, uiVars, detectionResult, isDetecting, requests>>

\* A caller that does not look at isDetecting: triggerDetection is invoked
\* while earlier invocations are in flight.
triggerDetectionUngated ==
    /\ scheme = "binary"
    /\ FreeRequests # {}
    /\ triggerDetection(NextRequest)
    /\ UNCHANGED outsideVars

\* resolveDetection, recorded: the invocations in the order their responses
\* resolved, and for the latest of them what it resolved with.
ResolveInOrder(r) ==
    /\ resolveDetection(r)
    /\ resolutions' =
           Append([i \in DOMAIN resolutions |-> [request |-> resolutions[i].request]],
                  [request |-> r, pc |-> requests[r].pc, reply |-> requests[r].reply])
    /\ UNCHANGED <<clickRun, serverVars>>

----------------------------------------------------------------------------
(* The liveness check: GET /api/health *)

\* s.includes(sub)
includes(s, sub) ==
    \E i \in 1..(Len(s) - Len(sub) + 1) : SubSeq(s, i, i + Len(sub) - 1) = sub

\* text.substring(from, to), from and to within 0..
substring(text, from, to) ==
    SubSeq(text, from + 1, IF to < Len(text) THEN to ELSE Len(text))

\* A body longer than the part of it the handler quotes.
TextLongHtml ==
    "<html><head><title>502 Bad Gateway</title></head><body><center><h1>502 Bad Gateway</h1></center><hr><center>nginx</center></body></html>"

\* What port 5000 does with GET /health.
HealthBehaviours ==
    PortBehaviours \cup [kind : {"responds"}, status : {502}, text : {TextLongHtml}]

\* The two ways a block of code ends.
Returns(reply) == [kind |-> "returns", reply |-> reply]
Throws(error) == [kind |-> "throws", error |-> error]

EmptyResponseMessage == "Empty response from detector service"

NotRunningMessage ==
    "Detector service is not running. Make sure mouse_detector.py is running on port 5000."

\* NextResponse.json({ status: 'error', message, running: false }, { status: 503 })
healthError(message) ==
    [status |-> ServiceUnavailable,
     body |-> [json |-> "object", status |-> "error", message |-> message, running |-> FALSE]]

\* A variant that reports the detector as running only on an OK status.
healthTry_checksOk(b) ==
    IF b.kind \in {"rejects", "bodyFails"}
    THEN Throws(b.error)
    ELSE IF b.text = "" \/ Len(trim(b.text)) = 0
    THEN Returns(healthError(EmptyResponseMessage))
    ELSE IF ~JSONparse(b.text).ok
    THEN Returns(healthError("Invalid response: " \o substring(b.text, 0, 100)))
    ELSE IF ~ResponseOk(b.status)
    THEN Returns(healthError(NotRunningMessage))
    ELSE Returns([status |-> 200,
                  body |-> [json |-> "object", status |-> "ok",
                            detector |-> JSONparse(b.text).value, running |-> TRUE]])

\* The try block of GET: the fetch, the body text, the parse, the reply.
healthTry(b) ==
    IF b.kind \in {"rejects", "bodyFails"}
    THEN Throws(b.error)
    ELSE IF b.text = "" \/ Len(trim(b.text)) = 0
    THEN Returns(healthError(EmptyResponseMessage))
    ELSE IF ~JSONparse(b.text).ok
    THEN Returns(healthError("Invalid response: " \o substring(b.text, 0, 100)))
    ELSE Returns([status |-> 200,
                  body |-> [json |-> "object", status |-> "ok",
                            detector |-> JSONparse(b.text).value, running |-> TRUE]])

\* The catch block of GET.
healthCatch(error) ==
    IF \/ error.code = "ECONNREFUSED"
       \/ includes(error.message, "fetch failed")
       \/ includes(error.message, "ECONNREFUSED")
    THEN Returns(healthError(NotRunningMessage))
    ELSE Returns(healthError(OrElse(error.message, "Failed to connect to detector service")))

\* A variant without the catch block.
healthOutcome_noCatch(b) == healthTry(b)

\* How GET ends when port 5000 behaves as b.
healthOutcome(b) ==
    IF healthTry(b).kind = "throws"
    THEN healthCatch(healthTry(b).error)
    ELSE healthTry(b)

NoHealth == [asked |-> [kind |-> "none"], outcome |-> Returns(NoReply)]

\* GET /api/health
healthGET(b) ==
    /\ health' = [asked |-> b, outcome |-> healthOutcome(b)]
    /\ UNCHANGED <<pageVars, clickRun, resolutions, detectionState, statusReply,
                   lastPosted, clock, detector>>

----------------------------------------------------------------------------
(* The detection status: GET and POST /api/detection *)

\* The values of the fields of a posted body: the JavaScript type and the
\* value as JSON writes it (strings without their quotes).
JsBoolean(v) == [type |-> "boolean", value |-> IF v THEN "true" ELSE "false"]
JsString(v) == [type |-> "string", value |-> v]
JsNumber(literal) == [type |-> "number", value |-> literal]
JsNull == [type |-> "null", value |-> "null"]
JsUndefined == [type |-> "undefined", value |-> ""]

\* !v
Falsy(v) ==
    \/ v.type \in {"null", "undefined"}
    \/ v.type = "boolean" /\ v.value = "false"
    \/ v.type = "number" /\ v.value \in {"0", "-0", "NaN"}
    \/ v.type = "string" /\ v.value = ""

\* v || d
Or(v, d) == IF Falsy(v) THEN d ELSE v

\* body.f
Field(body, f) == IF f \in DOMAIN body THEN body[f] ELSE JsUndefined

\* let detectionState = { detected: false, timestamp: Date.now(), room: 'kitchen' }
InitialDetectionState ==
    [detected |-> JsBoolean(FALSE), timestamp |-> 0, room |-> JsString("kitchen")]

\* What await request.json() gives: a rejection (NotJson), null, a number, or
\* an object with some of the fields detected and room.
PostBodies ==
    {NotJson, JNull, [json |-> "number"], [json |-> "object"]}
    \cup [json : {"object"}, detected : {JsBoolean(TRUE), JsBoolean(FALSE)},
          room : {JsString("bedroom"), JsString("")}]
    \cup [json : {"object"}, detected : {JsBoolean(TRUE), JsNumber("0"), JsNull}]
    \cup [json : {"object"}, room : {JsString("livingRoom"), JsNull}]

NoStatusReply == [method |-> "none", status |-> 0, body |-> NoBody]

InvalidRequestReply ==
    [method |-> "POST", status |-> 400,
     body |-> [json |-> "object", success |-> FALSE, error |-> "Invalid request"]]

\* GET /api/detection
detectionGET ==
    /\ statusReply' = [method |-> "GET", status |-> 200, body |-> detectionState]
    /\ UNCHANGED <<pageVars, clickRun, resolutions, health, detectionState,
                   lastPosted, clock, detector>>

\* A variant that keeps the room of the slot when the body names none.
detectionPOST_keepsRoom(body, now) ==
    /\ now \in clock..MaxClock
    /\ IF body = NotJson \/ body = JNull
       THEN /\ statusReply' = InvalidRequestReply
            /\ UNCHANGED <<detectionState, lastPosted, clock>>
       ELSE /\ detectionState' =
                   [detected |-> Or(Field(body, "detected"), JsBoolean(FALSE)),
                    timestamp |-> now,
                    room |-> Or(Field(body, "room"), detectionState.room)]
            /\ statusReply' =
                   [method |-> "POST", status |-> 200,
                    body |-> [json |-> "object", success |-> TRUE, state |-> detectionState']]
            /\ lastPosted' = body
            /\ clock' = now
    /\ UNCHANGED <<pageVars, clickRun, resolutions, health, detector>>

\* A variant that puts the slot back to its first value when it refuses a body.
detectionPOST_resetsOnInvalid(body, now) ==
    /\ now \in clock..MaxClock
    /\ IF body = NotJson \/ body = JNull
       THEN /\ statusReply' = InvalidRequestReply
            /\ detectionState' = InitialDetectionState
            /\ UNCHANGED <<lastPosted, clock>>
       ELSE /\ detectionState' =
                   [detected |-> Or(Field(body, "detected"), JsBoolean(FALSE)),
                    timestamp |-> now,
                    room |-> Or(Field(body, "room"), JsString("kitchen"))]
            /\ statusReply' =
                   [method |-> "POST", status |-> 200,
                    body |-> [json |-> "object", success |-> TRUE, state |-> detectionState']]
            /\ lastPosted' = body
            /\ clock' = now
    /\ UNCHANGED <<pageVars, clickRun, resolutions, health, detector>>

\* POST /api/detection with a request whose json() gives body, at time now.
\* request.json() rejecting and body.detected on null both end in the catch.
detectionPOST(body, now) ==
    /\ now \in clock..MaxClock
    /\ IF body = NotJson \/ body = JNull
       THEN /\ statusReply' = InvalidRequestReply
            /\ UNCHANGED <<detectionState, lastPosted, clock>>
       ELSE /\ detectionState' =
                   [detected |-> Or(Field(body, "detected"), JsBoolean(FALSE)),
                    timestamp |-> now,
                    room |-> Or(Field(body, "room"), JsString("kitchen"))]
            /\ statusReply' =
                   [method |-> "POST", status |-> 200,
                    body |-> [json |-> "object", success |-> TRUE, state |-> detectionState']]
            /\ lastPosted' = body
            /\ clock' = now
    /\ UNCHANGED <<pageVars, clickRun, resolutions, health, detector>>

----------------------------------------------------------------------------
(* The detector service behind the ports *)

\* fetch('http://localhost:5000/health', ...)
HealthPort == 5000

PortNumbers == {ports[i] : i \in DOMAIN ports}

\* What a port answers to POST /detect: nothing listens and the connection is
\* refused, or the service listens and answers with its result.
detectAnswer(state) ==
    IF state = "up"
    THEN [kind |-> "responds", status |-> 200, text |-> TextSuccess]
    ELSE [kind |-> "rejects", error |-> ErrRefused]

\* What a port answers to GET /health: refused, or a body that parses.
healthAnswer(state) ==
    IF state = "up"
    THEN [kind |-> "responds", status |-> 200, text |-> TextEmptyObject]
    ELSE [kind |-> "rejects", error |-> ErrRefused]

\* The service on one port is started or stopped.
ServiceChanges(port) ==
    /\ detector' = [detector EXCEPT ![port] = IF @ = "up" THEN "down" ELSE "up"]
    /\ UNCHANGED <<pageVars, clickRun, resolutions, health, detectionState,
                   statusReply, lastPosted, clock>>

\* A variant of the check that asks the port the relay asks first.
HealthCheck_relayFirst == healthGET(healthAnswer(detector[ports[1]]))

\* GET /api/health against the service as it is: one request, to port 5000.
HealthCheck == healthGET(healthAnswer(detector[HealthPort]))

\* One iteration of the relay's loop against the service as it is.
RelayOnPorts(r) ==
    /\ requests[r].pc = "relay"
    /\ RelayAttempt(r, detectAnswer(detector[nextPort(requests[r].attempted)]))
    /\ UNCHANGED outsideVars

----------------------------------------------------------------------------
(* Specifications *)

Init ==
    /\ scheme \in {"binary", "cyclic4"}
    /\ trapStates = IF scheme = "binary" THEN InitialTrapStates ELSE InitialTrapColors
    /\ selectedTrap = NullValue
    /\ enlargedTrap = NullValue
    /\ detectionResult = NullValue
    /\ isDetecting = FALSE
    /\ listenerIsDetecting = FALSE
    /\ requests = [r \in ReqIds |-> IdleRequest]
    /\ clickRun = NoRun
    /\ resolutions = <<>>
    /\ health = NoHealth
    /\ detectionState = InitialDetectionState
    /\ statusReply = NoStatusReply
    /\ lastPosted = NoBody
    /\ clock = 0
    /\ detector = [port \in PortNumbers |-> "down"]

\* The page as the user drives it, the relay and the detector behind it.
Next ==
    \/ (\E i \in DOMAIN traps : TrapClick(i)) /\ UNCHANGED outsideVars
    \/ (\E i \in DOMAIN traps : CameraFeedClick(i)) /\ UNCHANGED outsideVars
    \/ CloseModal /\ UNCHANGED outsideVars
    \/ (\E key \in Keys : handleKeyPress(key)) /\ UNCHANGED outsideVars
    \/ (\E r \in ReqIds, b \in PortBehaviours : RelayAttempt(r, b)) /\ UNCHANGED outsideVars
    \/ (\E r \in ReqIds : FetchRejects(r)) /\ UNCHANGED outsideVars
    \/ (\E r \in ReqIds : ResponseNotJson(r)) /\ UNCHANGED outsideVars
    \/ (\E r \in ReqIds : resolveDetection(r)) /\ UNCHANGED outsideVars
    \/ runKeydownEffect /\ UNCHANGED outsideVars

Spec == Init /\ [][Next]_vars

\* The click handlers called with any room argument.
NextStore ==
    \/ (\E room \in RoomArguments : handleTrapClick(room)) /\ UNCHANGED outsideVars
    \/ (\E room \in RoomArguments : handleTrapClickColors(room)) /\ UNCHANGED outsideVars

SpecStore == Init /\ [][NextStore]_vars

\* The liveness check next to the detection trigger of the page and its relay.
NextBoundary ==
    \/ \E b \in HealthBehaviours : healthGET(b)
    \/ (\E key \in Keys : handleKeyPress(key)) /\ UNCHANGED outsideVars
    \/ (\E r \in ReqIds, b \in PortBehaviours : RelayAttempt(r, b)) /\ UNCHANGED outsideVars
    \/ (\E r \in ReqIds : FetchRejects(r)) /\ UNCHANGED outsideVars
    \/ (\E r \in ReqIds : ResponseNotJson(r)) /\ UNCHANGED outsideVars
    \/ (\E r \in ReqIds : resolveDetection(r)) /\ UNCHANGED outsideVars
    \/ runKeydownEffect /\ UNCHANGED outsideVars

SpecBoundary == Init /\ [][NextBoundary]_vars

\* The detection-status endpoint under any sequence of requests.
NextStatus ==
    \/ detectionGET
    \/ \E body \in PostBodies, now \in 0..MaxClock : detectionPOST(body, now)

SpecStatus == Init /\ [][NextStatus]_vars

\* The detection trigger without its gate: invocations overlap.
NextUngated ==
    \/ triggerDetectionUngated
    \/ (\E r \in ReqIds, b \in PortBehaviours : RelayAttempt(r, b)) /\ UNCHANGED outsideVars
    \/ (\E r \in ReqIds : FetchRejects(r)) /\ UNCHANGED outsideVars
    \/ (\E r \in ReqIds : ResponseNotJson(r)) /\ UNCHANGED outsideVars
    \/ \E r \in ReqIds : ResolveInOrder(r)
    \/ runKeydownEffect /\ UNCHANGED outsideVars

SpecUngated == Init /\ [][NextUngated]_vars

\* No port of the detector can be reached: every fetch of the relay rejects.
UnreachableBehaviours == [kind : {"rejects"}, error : FetchErrors]

\* The page and its relay while the detector is unreachable on every port;
\* the relay itself answers the page.
NextUnreachable ==
    \/ (\E i \in DOMAIN traps : TrapClick(i)) /\ UNCHANGED outsideVars
    \/ (\E i \in DOMAIN traps : CameraFeedClick(i)) /\ UNCHANGED outsideVars
    \/ CloseModal /\ UNCHANGED outsideVars
    \/ (\E key \in Keys : handleKeyPress(key)) /\ UNCHANGED outsideVars
    \/ (\E r \in ReqIds, b \in UnreachableBehaviours : RelayAttempt(r, b)) /\ UNCHANGED outsideVars
    \/ (\E r \in ReqIds : resolveDetection(r)) /\ UNCHANGED outsideVars
    \/ runKeydownEffect /\ UNCHANGED outsideVars

\* A rejected fetch settles and an awaiting function is resumed: the relay's
\* loop and the continuation of triggerDetection are not postponed for ever.
SpecUnreachable ==
    /\ Init
    /\ [][NextUnreachable]_vars
    /\ WF_vars((\E r \in ReqIds, b \in UnreachableBehaviours : RelayAttempt(r, b))
                   /\ UNCHANGED outsideVars)
    /\ WF_vars((\E r \in ReqIds : resolveDetection(r)) /\ UNCHANGED outsideVars)

\* The liveness check and the relay against one and the same service, which
\* is started and stopped port by port.
NextPorts ==
    \/ \E port \in PortNumbers : ServiceChanges(port)
    \/ HealthCheck
    \/ (\E key \in Keys : handleKeyPress(key)) /\ UNCHANGED outsideVars
    \/ \E r \in ReqIds : RelayOnPorts(r)
    \/ (\E r \in ReqIds : resolveDetection(r)) /\ UNCHANGED outsideVars
    \/ runKeydownEffect /\ UNCHANGED outsideVars

SpecPorts == Init /\ [][NextPorts]_vars

\* The overlay clicked again and again, the run of clicks on one trap recorded.
NextClicks == \E i \in DOMAIN traps : ClickInRun(i)

SpecClicks == Init /\ [][NextClicks]_vars

----------------------------------------------------------------------------
(* Claims about the relay *)

\* The body texts that are not empty and parse.
ParseableTexts == {TextNull, TextEmptyObject, TextSuccess, TextSuccessNoResult, TextError}

\* A port that gives no usable response: no response, no readable body, an
\* empty body or one that does not parse.
Unusable(b) ==
    \/ b.kind \in {"rejects", "bodyFails"}
    \/ b.kind = "responds" /\ b.text \in {TextEmpty, TextBlank, TextHtml}

\* A port that answers OK with a non-empty parseable body.
AnswersOk(b) ==
    b.kind = "responds" /\ b.status = 200 /\ b.text \in ParseableTexts

\* A port that answers with an error status and a non-empty parseable body.
AnswersError(b) ==
    b.kind = "responds" /\ b.status = 500 /\ b.text \in ParseableTexts

\* C1: the relay tries the ports in the order 5001, 5000, 5002, 8000, each at
\* most once; the first port that answers OK with a non-empty parseable body
\* ends the run with that body as the reply, and no later port is tried: when
\* 5001 and 5000 have failed and 5002 answers so, port 8000 is never tried.
C1_PortsInOrderFirstAnswerWins ==
    [][/\ \A r \in ReqIds, b \in PortBehaviours :
              RelayAttempt(r, b) =>
                  /\ requests'[r].attempted =
                         SubSeq(<<5001, 5000, 5002, 8000>>, 1, Len(requests[r].attempted) + 1)
                  /\ AnswersOk(b) =>
                         /\ requests'[r].pc = "replied"
                         /\ requests'[r].reply = [status |-> 200, body |-> JSONparse(b.text).value]
       /\ \A r \in ReqIds :
              requests[r].pc = "replied" =>
                  \/ requests'[r] = requests[r]
                  \/ requests'[r].pc = "done"
      ]_vars

\* C1 witness: 5001 and 5000 were tried without an answer, 5002 answered, and
\* the reply is its body; 8000 was not tried.
C1_Witness ==
    \E r \in ReqIds :
        /\ requests[r].pc = "replied"
        /\ requests[r].attempted = <<5001, 5000, 5002>>
        /\ requests[r].reply =
               [status |-> 200,
                body |-> [json |-> "object", status |-> "success",
                          result |-> "MOUSE DETECTED", detected |-> TRUE]]

\* C2: a port that answers with an error status and a non-empty parseable
\* body ends the run: the reply is { error, status } with the upstream HTTP
\* status, and no further port is tried.
C2_UpstreamErrorIsTerminal ==
    [][\A r \in ReqIds, b \in PortBehaviours :
           (RelayAttempt(r, b) /\ AnswersError(b)) =>
               /\ requests'[r].pc = "replied"
               /\ requests'[r].reply.status = b.status
               /\ {"error", "status"} \subseteq DOMAIN requests'[r].reply.body
      ]_vars

\* C3: when the fourth port too gives no usable response, the reply is the
\* one normalized failure, HTTP 503 with status 'error' and a message naming
\* 5001, 5000, 5002, 8000; that reply is given only after all four ports
\* were tried, and it stays the reply of the run.
C3_AllPortsFailed ==
    [][\A r \in ReqIds :
           LET failure ==
                   [status |-> 503,
                    body |-> [json |-> "object", status |-> "error",
                              error |-> "Detector service is not running on any port (5001, 5000, 5002, 8000). Make sure mouse_detector.py is running."]]
           IN /\ \A b \in PortBehaviours :
                     (RelayAttempt(r, b) /\ Len(requests[r].attempted) = 3 /\ Unusable(b)) =>
                         /\ requests'[r].pc = "replied"
                         /\ requests'[r].reply = failure
              /\ (requests'[r].pc = "replied" /\ requests'[r].reply = failure) =>
                     requests'[r].attempted = <<5001, 5000, 5002, 8000>>
              /\ (requests[r].pc = "replied" /\ requests[r].reply = failure) =>
                     requests'[r].pc = "done" \/ requests'[r] = requests[r]
      ]_vars

\* C3 witness: all four ports were tried and the reply is the 503 failure.
C3_Witness ==
    \E r \in ReqIds :
        /\ requests[r].pc = "replied"
        /\ requests[r].attempted = <<5001, 5000, 5002, 8000>>
        /\ requests[r].reply.status = 503
        /\ requests[r].reply.body.status = "error"

----------------------------------------------------------------------------
(* Claims about the detection trigger *)

\* C4: an Enter keypress while an invocation is in flight starts no new one:
\* at most one request to /api/detect is outstanding in every reachable state.
C4_AtMostOneOutstanding == Cardinality(Outstanding) <= 1

\* C4 witness: an invocation is in flight, a further one could still be
\* started, and the registered handler is the one that holds the set flag.
C4_Witness ==
    /\ Outstanding # {}
    /\ FreeRequests # {}
    /\ listenerIsDetecting

\* The replies that are a JSON value other than an object with status 'success'.
NotSuccess(req) ==
    /\ req.pc = "replied"
    /\ req.reply.body # NotJson
    /\ ~("status" \in DOMAIN req.reply.body /\ req.reply.body.status = "success")

\* C5: an invocation that fails (the fetch rejects, the reply is not JSON, or
\* its status is not 'success') ends with a failure message in detectionResult,
\* the reply's error text when it carries one, and with isDetecting cleared.
C5_FailureStoresMessage ==
    [][\A r \in ReqIds :
           LET req == requests[r]
               body == req.reply.body
           IN (resolveDetection(r)
                 /\ (req.pc = "rejected" \/ body = NotJson \/ NotSuccess(req))) =>
                  /\ ~isDetecting'
                  /\ detectionResult' \in
                         {"Error: Failed to connect to detector service",
                          "Error: Unknown error",
                          "Error: Detection failed",
                          "Error: Camera not available",
                          "Error: Detector service is not running on any port (5001, 5000, 5002, 8000). Make sure mouse_detector.py is running."}
                  /\ (NotSuccess(req) /\ "error" \in DOMAIN body) =>
                         detectionResult' = "Error: " \o body.error
      ]_vars

\* C5 witness: an invocation has ended with the upstream's error text stored.
C5_Witness ==
    /\ \E r \in ReqIds : requests[r].pc = "done"
    /\ detectionResult = "Error: Camera not available"
    /\ ~isDetecting

\* C6: an invocation whose reply is a success response with a result ends
\* with that result in detectionResult and with isDetecting false.
C6_SuccessStoresResult ==
    [][\A r \in ReqIds :
           LET body == requests[r].reply.body
           IN (resolveDetection(r)
                 /\ requests[r].pc = "replied"
                 /\ {"status", "result"} \subseteq DOMAIN body
                 /\ body.status = "success") =>
                  /\ detectionResult' = body.result
                  /\ ~isDetecting'
      ]_vars

\* C6 witness: an invocation has ended with the detector's result stored.
C6_Witness ==
    /\ \E r \in ReqIds : requests[r].pc = "done"
    /\ detectionResult = "MOUSE DETECTED"
    /\ ~isDetecting

\* C7: from the start of an invocation until its request resolves,
\* isDetecting is true and detectionResult is null: no earlier result stays.
C7_InFlightClearsResult ==
    Outstanding # {} => (isDetecting /\ detectionResult = NullValue)

\* C7 witness: a second invocation is in flight after a first one ended.
C7_Witness ==
    /\ requests[1].pc = "done"
    /\ requests[2].pc \in {"relay", "replied", "rejected"}
    /\ detectionResult = NullValue

\* C8: an invocation issues exactly one request, also when it fails, and
\* stores its outcome exactly once, when it ends.
C8_OneRequestOneResult ==
    \A r \in ReqIds :
        /\ requests[r].pc = "idle" => (requests[r].sent = 0 /\ requests[r].applied = 0)
        /\ requests[r].pc \in {"relay", "replied", "rejected"} =>
               (requests[r].sent = 1 /\ requests[r].applied = 0)
        /\ requests[r].pc = "done" => (requests[r].sent = 1 /\ requests[r].applied = 1)

\* C8 witness: an invocation has failed and ended, with one request issued.
C8_Witness ==
    /\ \E r \in ReqIds :
           requests[r].pc = "done" /\ requests[r].sent = 1 /\ requests[r].applied = 1
    /\ detectionResult = ConnectFailedMessage

----------------------------------------------------------------------------
(* Claims about the trap state store *)

\* C9: the keys of trapStates are exactly kitchen, livingRoom and bedroom in
\* every reachable state of either page.
C9_KeysAreRegistryIds == DOMAIN trapStates = {"kitchen", "livingRoom", "bedroom"}

\* C9 witness: traps were clicked, a detection has ended and the modal is closed.
C9_Witness ==
    /\ trapStates["kitchen"] = "active"
    /\ trapStates["bedroom"] = "active"
    /\ selectedTrap = "livingRoom"
    /\ enlargedTrap = NullValue
    /\ \E r \in ReqIds : requests[r].pc = "done"

\* C10: the click handler called with an id outside the registry leaves the
\* store unchanged: it creates no entry for that id.
C10_UnknownIdLeavesStore ==
    [][\A room \in UnknownRooms :
           (handleTrapClick(room) \/ handleTrapClickColors(room)) => trapStates' = trapStates
      ]_vars

\* C11: on the two-value page the tallies of getStatusCounts, inactive plus
\* active, sum to the number of traps of the registry after any clicks.
C11_CountsSumToRegistrySize ==
    scheme = "binary" =>
        getStatusCounts(trapStates).inactive + getStatusCounts(trapStates).active = 3

\* C11 witness: traps were clicked and the tally is one inactive, two active.
C11_Witness ==
    /\ scheme = "binary"
    /\ selectedTrap # NullValue
    /\ getStatusCounts(trapStates) = [inactive |-> 1, active |-> 2]

\* C12: a click on an inactive trap makes it active and a click on an active
\* trap makes it inactive; from all inactive, a click on kitchen gives kitchen
\* active with the tally n-1 inactive and 1 active, and a second click on
\* kitchen gives all inactive again.
C12_ClickToggles ==
    [][\A i \in DOMAIN traps :
           LET id == traps[i].id
               allInactive == [k \in {"kitchen", "livingRoom", "bedroom"} |-> "inactive"]
               kitchenActive == [allInactive EXCEPT !["kitchen"] = "active"]
           IN handleTrapClick(id) =>
                  /\ trapStates[id] = "inactive" => trapStates'[id] = "active"
                  /\ trapStates[id] = "active" => trapStates'[id] = "inactive"
                  /\ (id = "kitchen" /\ trapStates = allInactive) =>
                         /\ trapStates' = kitchenActive
                         /\ getStatusCounts(trapStates') = [inactive |-> 2, active |-> 1]
                  /\ (id = "kitchen" /\ trapStates = kitchenActive) =>
                         trapStates' = allInactive
      ]_vars

\* C12 witness: kitchen was clicked once from the initial store.
C12_Witness ==
    /\ scheme = "binary"
    /\ selectedTrap = "kitchen"
    /\ enlargedTrap = "kitchen"
    /\ trapStates = [kitchen |-> "active", livingRoom |-> "inactive", bedroom |-> "inactive"]

\* C13: on the four-colour page a click moves the trap to the successor of
\* its status in default, green, yellow, red, default; every status has a
\* successor and a click on any trap is always possible.
C13_ClickCycles ==
    [][\A i \in DOMAIN traps :
           LET id == traps[i].id
           IN /\ scheme = "cyclic4" => ENABLED handleTrapClickColors(id)
              /\ handleTrapClickColors(id) =>
                     /\ trapStates[id] \in {"default", "green", "yellow", "red"}
                     /\ trapStates[id] = "default" => trapStates'[id] = "green"
                     /\ trapStates[id] = "green" => trapStates'[id] = "yellow"
                     /\ trapStates[id] = "yellow" => trapStates'[id] = "red"
                     /\ trapStates[id] = "red" => trapStates'[id] = "default"
      ]_vars

\* C13 witness: kitchen was clicked three times and livingRoom once.
C13_Witness ==
    /\ scheme = "cyclic4"
    /\ trapStates = [kitchen |-> "red", livingRoom |-> "green", bedroom |-> "default"]

\* C14: four clicks in a row on one trap of the four-colour page, and two
\* (hence also four) clicks in a row on one trap of the two-value page, bring
\* the trap back to the status it had before them, whatever that status was.
C14_CycleCloses ==
    clickRun.count > 0 =>
        /\ (scheme = "cyclic4" /\ clickRun.count = 4) =>
               trapStates[clickRun.room] = clickRun.from
        /\ (scheme = "binary" /\ clickRun.count \in {2, 4}) =>
               trapStates[clickRun.room] = clickRun.from

\* C14 witness: four clicks in a row on a trap that was yellow before them.
C14_Witness ==
    /\ scheme = "cyclic4"
    /\ clickRun.count = 4
    /\ clickRun.from = "yellow"
    /\ trapStates[clickRun.room] = "yellow"

\* C15: a trap's status changes only through a click on that trap. A click on
\* one trap leaves the status of every other trap as it was; a key press
\* (which may start a detection), the completion of a detection whatever its
\* reply, a click on a camera feed and closing the modal leave trapStates as
\* it was; and no step at all changes trapStates unless it is a trap click.
C15_StatusChangesOnlyByClick ==
    [][/\ \A i \in DOMAIN traps :
              TrapClick(i) =>
                  \A id \in TrapIds \ {traps[i].id} : trapStates'[id] = trapStates[id]
       /\ (\/ \E key \in Keys : handleKeyPress(key)
           \/ \E r \in ReqIds : resolveDetection(r)
           \/ \E i \in DOMAIN traps : CameraFeedClick(i)
           \/ CloseModal) => trapStates' = trapStates
       /\ trapStates' # trapStates => \E i \in DOMAIN traps : TrapClick(i)]_vars

\* C15 witness: a detection has completed with the reply that reports a mouse
\* while the kitchen trap is selected, and the kitchen trap is still inactive
\* next to an active bedroom trap.
C15_Witness ==
    /\ \E r \in ReqIds : requests[r].pc = "done"
    /\ detectionResult = "MOUSE DETECTED"
    /\ selectedTrap = "kitchen"
    /\ trapStates = [kitchen |-> "inactive", livingRoom |-> "inactive", bedroom |-> "active"]

----------------------------------------------------------------------------
(* Claims about the liveness check *)

\* C16: every outcome of GET /api/health has the shape {status: ok | error,
\* running: boolean, message?}; running is true, with status 'ok' and the
\* decoded payload under detector, exactly when port 5000 gave a non-empty
\* body that parses, and otherwise running is false with status 'error' and
\* a message; for an empty body the message is not the one for a refused
\* connection.
C16_HealthNormalised ==
    health # NoHealth =>
        LET b == health.asked
            body == health.outcome.reply.body
            parseable == b.kind = "responds" /\ b.text \in ParseableTexts
        IN /\ health.outcome.kind = "returns"
           /\ body.json = "object"
           /\ {"status", "running"} \subseteq DOMAIN body
           /\ DOMAIN body \subseteq {"json", "status", "running", "message", "detector"}
           /\ body.status \in {"ok", "error"}
           /\ body.running \in BOOLEAN
           /\ body.running <=> parseable
           /\ body.running =>
                  /\ body.status = "ok"
                  /\ "detector" \in DOMAIN body
                  /\ body.detector = JSONparse(b.text).value
           /\ ~body.running =>
                  /\ body.status = "error"
                  /\ "message" \in DOMAIN body
           /\ (b.kind = "responds" /\ b.text = TextEmpty) =>
                  /\ ~body.running
                  /\ body.message #
                         "Detector service is not running. Make sure mouse_detector.py is running on port 5000."

\* C16 witness: port 5000 answered with an error status and a body that
\* parses, and the check reports the detector as running.
C16_Witness ==
    /\ health.asked = [kind |-> "responds", status |-> 500, text |-> TextError]
    /\ health.outcome.reply.body.running
    /\ health.outcome.reply.body.status = "ok"

\* C17: when the request to port 5000 is aborted at its timeout, the reply of
\* GET /api/health is the reply it gives for a refused connection.
C17_AbortLikeRefused ==
    (health.asked.kind = "rejects" /\ health.asked.error = ErrAborted) =>
        health.outcome = healthOutcome([kind |-> "rejects", error |-> ErrRefused])

\* C18: no failure of the external service escapes.  GET /api/health ends by
\* returning a JSON object whatever port 5000 does; an iteration of the loop
\* of POST /api/detect either goes on to a next port that exists or returns a
\* JSON reply, an object carrying an error when the port failed; and every
\* response or rejection the client receives is resolved by triggerDetection
\* finishing, with its flag cleared.
C18_NoFailureEscapes ==
    [][/\ \A b \in HealthBehaviours :
              healthGET(b) =>
                  /\ health'.outcome.kind = "returns"
                  /\ health'.outcome.reply.body.json = "object"
       /\ \A r \in ReqIds, b \in PortBehaviours :
              RelayAttempt(r, b) =>
                  /\ requests'[r].pc \in {"relay", "replied"}
                  /\ requests'[r].pc = "relay" =>
                         Len(requests'[r].attempted) < Len(ports)
                  /\ requests'[r].pc = "replied" =>
                         /\ requests'[r].reply.body.json \in {"object", "null"}
                         /\ (Unusable(b) \/ ~ResponseOk(b.status)) =>
                                /\ requests'[r].reply.body.json = "object"
                                /\ "error" \in DOMAIN requests'[r].reply.body
       /\ \A r \in ReqIds :
              /\ requests[r].pc \in {"replied", "rejected"} => ENABLED resolveDetection(r)
              /\ resolveDetection(r) => (requests'[r].pc = "done" /\ ~isDetecting')
      ]_vars

\* C18 witness: the body of port 5000's answer could not be read and the
\* check returned, and an invocation whose fetch rejected has finished with
\* the connection message on display.
C18_Witness ==
    /\ health.asked.kind = "bodyFails"
    /\ health.outcome = Returns(healthError("terminated"))
    /\ \E r \in ReqIds : requests[r].pc = "done"
    /\ detectionResult = ConnectFailedMessage

----------------------------------------------------------------------------
(* Claims about the detection status *)

\* What a POST that succeeded has written, by the rule of the endpoint: the
\* posted detected, or false when it is missing or falsy; the posted room, or
\* 'kitchen' when it is missing or falsy; before any POST, false and 'kitchen'.
WrittenDetected(post) ==
    IF "detected" \notin DOMAIN post
    THEN JsBoolean(FALSE)
    ELSE IF post.detected \in {JsBoolean(FALSE), JsNumber("0"), JsNull}
    THEN JsBoolean(FALSE)
    ELSE post.detected

WrittenRoom(post) ==
    IF "room" \notin DOMAIN post
    THEN JsString("kitchen")
    ELSE IF post.room \in {JsString(""), JsNull}
    THEN JsString("kitchen")
    ELSE post.room

SlotIsLastWrite ==
    /\ DOMAIN detectionState = {"detected", "timestamp", "room"}
    /\ detectionState.detected = WrittenDetected(lastPosted)
    /\ detectionState.room = WrittenRoom(lastPosted)

\* C19: the endpoint has one slot {detected, timestamp, room}, at first false
\* and 'kitchen'; after any sequence of POSTs and GETs the slot holds, and a
\* GET returns, what the most recent POST that succeeded wrote (false for a
\* missing or falsy detected, 'kitchen' for a missing or falsy room); a GET
\* leaves the slot as it was, and so does a POST that is refused.
C19_LastWriteWins ==
    [][/\ SlotIsLastWrite
       /\ SlotIsLastWrite'
       /\ detectionGET =>
              /\ statusReply'.body.detected = WrittenDetected(lastPosted)
              /\ statusReply'.body.room = WrittenRoom(lastPosted)
              /\ detectionState' = detectionState
       /\ \A body \in PostBodies, now \in 0..MaxClock :
              detectionPOST(body, now) =>
                  IF statusReply'.status = 200
                  THEN /\ lastPosted' = body
                       /\ statusReply'.body.success
                       /\ statusReply'.body.state = detectionState'
                  ELSE /\ ~statusReply'.body.success
                       /\ detectionState' = detectionState
      ]_vars

\* C19 witness: after a POST that named the bedroom, the latest POST carried
\* detected: true and no room, and a GET returns detected true in the kitchen.
C19_Witness ==
    /\ lastPosted = [json |-> "object", detected |-> JsBoolean(TRUE)]
    /\ statusReply.method = "GET"
    /\ statusReply.body.detected = JsBoolean(TRUE)
    /\ statusReply.body.room = JsString("kitchen")
    /\ statusReply.body.timestamp = MaxClock

----------------------------------------------------------------------------
(* Claims about overlapping invocations *)

\* C20: when invocations were started without regard to the gate and all of
\* their responses have resolved, two or more of them, detectionResult holds
\* the outcome of the response that resolved last, whichever invocation was
\* started first: the connection message for a rejected fetch or a reply that
\* is not JSON, the result of a success reply, the error text of an error reply.
C20_LastResolvedWins ==
    (Outstanding = {} /\ Len(resolutions) >= 2) =>
        LET last == resolutions[Len(resolutions)]
            body == last.reply.body
        IN /\ (last.pc = "rejected" \/ body = NotJson) =>
                  detectionResult = "Error: Failed to connect to detector service"
           /\ (/\ last.pc = "replied"
               /\ {"status", "result"} \subseteq DOMAIN body
               /\ body.status = "success") => detectionResult = body.result
           /\ (NotSuccess(last) /\ "error" \in DOMAIN body) =>
                  detectionResult = "Error: " \o body.error

\* C20 witness: two invocations overlapped, the response of the second
\* resolved first and the error reply of the first resolved last, and it is
\* the first one's error that is on display.
C20_Witness ==
    /\ Outstanding = {}
    /\ Len(resolutions) = 2
    /\ resolutions[1].request = 2
    /\ resolutions[2].request = 1
    /\ resolutions[2].pc = "replied"
    /\ resolutions[2].reply.body =
           [json |-> "object", error |-> "Camera not available", status |-> "error"]
    /\ detectionResult = "Error: Camera not available"

----------------------------------------------------------------------------
(* Claims about the page and the routes together *)

\* C21: isDetecting is true exactly when an invocation has been started and
\* its response has not yet been resolved: the flag is set while a request to
\* /api/detect is outstanding and clear while none is.
C21_FlagTracksOutstanding ==
    isDetecting <=> (Outstanding # {})

\* C21 witness: a first invocation has ended, the reply of a second one is on
\* its way, and the flag is set.
C21_Witness ==
    /\ requests[1].pc = "done"
    /\ requests[2].pc = "replied"
    /\ isDetecting

\* C22: a port whose connection is refused, whose fetch fails or is aborted,
\* whose body cannot be read, or whose body is empty or does not parse,
\* whatever its HTTP status, makes the relay go on: while a further port is
\* left it is counted as tried and nothing is replied, and only after the
\* last port the reply is the all-ports failure.
C22_FailuresMoveOn ==
    [][\A r \in ReqIds, b \in PortBehaviours :
           (RelayAttempt(r, b) /\ Unusable(b)) =>
               IF Len(requests[r].attempted) + 1 < Len(<<5001, 5000, 5002, 8000>>)
               THEN /\ requests'[r].pc = "relay"
                    /\ Len(requests'[r].attempted) = Len(requests[r].attempted) + 1
                    /\ requests'[r].reply = NoReply
               ELSE /\ requests'[r].pc = "replied"
                    /\ requests'[r].reply.status = 503
      ]_vars

\* C22 witness: three ports were tried, the third gave nothing that parses,
\* and the relay has not replied.
C22_Witness ==
    \E r \in ReqIds :
        /\ requests[r].pc = "relay"
        /\ requests[r].attempted = <<5001, 5000, 5002>>
        /\ requests[r].answer = NoReply
        /\ requests[r].reply = NoReply

\* C23: on the page with a selection, a click on a trap of the overlay is one
\* step that changes the trap's status and makes it the selected and the
\* enlarged trap; selectedTrap and enlargedTrap each hold a registry id or
\* null, before and after every step.
C23_ClickSelectsAndEnlarges ==
    [][/\ \A i \in DOMAIN traps :
              (scheme = "binary" /\ TrapClick(i)) =>
                  /\ trapStates'[traps[i].id] # trapStates[traps[i].id]
                  /\ selectedTrap' = traps[i].id
                  /\ enlargedTrap' = traps[i].id
       /\ selectedTrap \in {"kitchen", "livingRoom", "bedroom", NullValue}
       /\ enlargedTrap \in {"kitchen", "livingRoom", "bedroom", NullValue}
       /\ selectedTrap' \in {"kitchen", "livingRoom", "bedroom", NullValue}
       /\ enlargedTrap' \in {"kitchen", "livingRoom", "bedroom", NullValue}
      ]_vars

\* C23 witness: the kitchen trap was clicked and then the bedroom trap, which
\* is now active, selected and enlarged.
C23_Witness ==
    /\ scheme = "binary"
    /\ trapStates = [kitchen |-> "active", livingRoom |-> "inactive", bedroom |-> "active"]
    /\ selectedTrap = "bedroom"
    /\ enlargedTrap = "bedroom"

\* C24: while the detector is unreachable on all four ports, every invocation
\* that is started ends, and it ends with isDetecting false and with 'Error: '
\* followed by the relay's all-ports message on display; whenever an
\* invocation has ended and none is in flight, that message is what is shown,
\* never null and never a result.
C24_UnreachableEndsInError ==
    /\ [](((\E r \in ReqIds : requests[r].pc = "done") /\ Outstanding = {}) =>
              /\ ~isDetecting
              /\ detectionResult =
                     "Error: Detector service is not running on any port (5001, 5000, 5002, 8000). Make sure mouse_detector.py is running.")
    /\ \A r \in ReqIds :
           (requests[r].pc = "relay") ~>
               (/\ requests[r].pc = "done"
                /\ ~isDetecting
                /\ detectionResult =
                       "Error: Detector service is not running on any port (5001, 5000, 5002, 8000). Make sure mouse_detector.py is running.")

\* C24 witness: the second invocation too has ended with the all-ports message
\* on display and the flag clear.
C24_Witness ==
    /\ requests[2].pc = "done"
    /\ requests[2].applied = 1
    /\ ~isDetecting
    /\ detectionResult = "Error: " \o AllPortsFailedMessage

\* C25: a POST to the detection status whose body is not valid JSON, or is
\* JSON null, is answered with HTTP 400 and success false, and the slot is
\* after it exactly what it was before it.
C25_RefusedPostKeepsSlot ==
    [][\A now \in 0..MaxClock :
           (detectionPOST(NotJson, now) \/ detectionPOST(JNull, now)) =>
               /\ statusReply'.status = 400
               /\ statusReply'.body.success = FALSE
               /\ detectionState' = detectionState
      ]_vars

\* C25 witness: a POST was refused after one that reported a mouse in the
\* bedroom at the latest time, and the slot still holds that report.
C25_Witness ==
    /\ statusReply.method = "POST"
    /\ statusReply.status = 400
    /\ detectionState =
           [detected |-> JsBoolean(TRUE), timestamp |-> MaxClock, room |-> JsString("bedroom")]

\* C26: the liveness check asks port 5000 and no other port, so its reply is
\* the reply to what port 5000 answers, whatever listens on 5001, 5002 and
\* 8000: it reports running exactly when the service is up on 5000.  With the
\* service up on 5001 only, the check reports running false while a run of
\* the relay that starts then replies to the page with the service's result,
\* from the first port it tries.
C26_HealthAsksPort5000Only ==
    [][LET only5001 == [port \in {5001, 5000, 5002, 8000} |->
                            IF port = 5001 THEN "up" ELSE "down"]
       IN /\ HealthCheck =>
                 /\ health'.asked = healthAnswer(detector[5000])
                 /\ health'.outcome.reply.body.running <=> (detector[5000] = "up")
                 /\ detector = only5001 =>
                        /\ ~health'.outcome.reply.body.running
                        /\ health'.outcome.reply.body.status = "error"
          /\ \A r \in ReqIds :
                 (detector = only5001 /\ requests[r].attempted = <<>> /\ RelayOnPorts(r)) =>
                     /\ requests'[r].pc = "replied"
                     /\ requests'[r].attempted = <<5001>>
                     /\ requests'[r].reply.status = 200
                     /\ requests'[r].reply.body.result = "MOUSE DETECTED"
      ]_vars

\* C26 witness: the service is up on 5001 only, the check has reported that
\* the detector is not running, and the relay has replied with the result.
C26_Witness ==
    /\ detector = [port \in PortNumbers |-> IF port = 5001 THEN "up" ELSE "down"]
    /\ health.asked.kind = "rejects"
    /\ health.outcome = Returns(healthError(NotRunningMessage))
    /\ \E r \in ReqIds :
           /\ requests[r].pc = "replied"
           /\ requests[r].attempted = <<5001>>
           /\ requests[r].reply.body.result = "MOUSE DETECTED"

====
